---- MODULE Spec2Model ----
(***************************************************************************)
(* Model of audio_processor.py: merge_audio_files (ffmpeg concat demuxer   *)
(* driven through a manifest file) and add_metadata_to_audio (eyed3 tags). *)
(* Program positions are named after the source line they stand at.        *)
(* Progress fractions are kept in hundredths (0.1 is 10, 1.0 is 100).      *)
(* Strings that are formatted or searched are sequences of tokens.         *)
(***************************************************************************)
EXTENDS Integers, Sequences, FiniteSets, TLC

\* ---------------------------------------------------------------- bounds
MaxFiles == 2
MaxStderr == 2

\* ---------------------------------------------------------------- inputs
Paths == {"a.mp3", "b.wav"}
StderrChars == {"e", "N"}

SeqsUpTo(S, n) == UNION {[1..k -> S] : k \in 0..n}

FileLists == SeqsUpTo(Paths, MaxFiles)
StderrTexts == SeqsUpTo(StderrChars, MaxStderr)

\* exceptions a caller-supplied callback may raise; the first two are the
\* ones the except clauses of merge_audio_files would catch
CallbackExc == {"CalledProcessError", "FileNotFoundError", "OtherError"}

\* e.stderr of a CalledProcessError that was built without output
NoneVal == <<"<None>">>

\* ------------------------------------------------------- program constants
ProgressStart == 10
\* the second progress report overshooting the third
ProgressListedMut == 100 - 5
ProgressListed == 30
ProgressToolDone == 90
ProgressDone == 100

MsgStart == <<"Starting audio file merging...">>
MsgListed == <<"Generated file list for merging...">>
MsgRunning == <<"Running ffmpeg to merge files... This may take a moment.">>
MsgToolDone == <<"ffmpeg process completed.">>
MsgExport == <<"Exporting merged audio as MP3...">>
MsgNoFiles == <<"No files provided for merging">>
MsgNotFound == <<"ffmpeg not found. Please ensure ffmpeg is installed and in your system's PATH.">>

NoFilesExc == "ValueError"
ToolFailedExc == "ValueError"
ToolMissingExc == "RuntimeError"

\* str(e.stderr) as the f-string renders it
FormatStderr(s) == IF s = NoneVal THEN <<"N", "o", "n", "e">> ELSE s

\* the message without the captured output
FfmpegErrorMessageMut(s) == <<"ffmpeg error: ">>

\* f"ffmpeg error: {e.stderr}"
FfmpegErrorMessage(s) == <<"ffmpeg error: ">> \o FormatStderr(s)

\* f"file '{file_path}'\n"
ManifestLine(p) == <<"file '", p, "'\n">>

\* the guard left out
NoFilesMut(fp) == FALSE

\* `if not file_paths`
NoFiles(fp) == Len(fp) = 0

\* ---------------------------------------------------------- tag constants
Fields == <<"title", "artist", "album", "year", "cover_image">>
FieldSet == {Fields[k] : k \in 1..Len(Fields)}
Absent == "<absent>"
Empty == ""
Good == "new"
Bad == "malformed"
Old == "old"
MetaValues == {Empty, Good, Bad}
MetadataRecords == [FieldSet -> MetaValues]

NoSlots == [f \in FieldSet |-> Absent]
OldSlots == [f \in FieldSet |-> Old]
NoTag == [exists |-> FALSE, slots |-> NoSlots]
EmptyTag == [exists |-> TRUE, slots |-> NoSlots]
OldTag == [exists |-> TRUE, slots |-> OldSlots]
PriorTags == {NoTag, EmptyTag, OldTag}

\* metadata.get(f) is truthy
Populated(md, f) == md[f] # Empty

\* the tag representation refuses the value (a year that is no date, a
\* text that is no str, image data the frame cannot take)
Rejects(f, v) == v = Bad

Causes == {"empty", "tool_missing", "tool_failed", "open_failure", "save_failure"}
Unseen == "<unseen>"
NoError == "<no error>"

NoOutcome == [kind |-> "none", exc |-> "", msg |-> <<>>]
NoPending == [exc |-> "", msg |-> <<>>]

VARIABLES
  pc,                \* position of the single thread of control
  file_paths,        \* argument of merge_audio_files
  status_callback,   \* TRUE when a status callback was passed
  progress_callback, \* TRUE when a progress callback was passed
  events,            \* callback invocations of this call, in order
  idx,               \* position of the manifest write loop
  manifestExists,    \* the temporary list file is on disk
  manifestOpen,      \* the temporary list file is still open for writing
  manifestLines,     \* what has been written to it
  toolStarted,       \* subprocess.run started ffmpeg
  toolResult,        \* "none", "ok", "nonzero" or "missing"
  toolSaw,           \* the manifest as it was when ffmpeg was launched
  stderr,            \* e.stderr of the CalledProcessError being handled
  outputCreated,     \* ffmpeg wrote output_path during this call
  pending,           \* exception travelling through the finally block
  cbRaised,          \* a callback raised during this call
  outcome,           \* how the call ended
  reported,          \* per failure cause, the error kind the caller saw
  metadata,          \* argument of add_metadata_to_audio
  tagDisk,           \* tag stored in the file
  tagLoaded,         \* the tag as eyed3.load found it
  tagMem,            \* audiofile.tag
  openFailed,        \* eyed3.load failed or gave no audio file
  saveAttempted,     \* audiofile.tag.save() was called
  saveFailed,        \* audiofile.tag.save() raised
  rejected,          \* fields whose assignment raised
  printed            \* the except clause printed an error

mergeVars == <<file_paths, status_callback, progress_callback, events, idx,
               manifestExists, manifestOpen, manifestLines, toolStarted,
               toolResult, toolSaw, stderr, outputCreated, pending, cbRaised>>
tagVars == <<metadata, tagDisk, tagLoaded, tagMem, openFailed, saveAttempted, saveFailed,
             rejected, printed>>
vars == <<pc, mergeVars, tagVars, outcome, reported>>

NotLaunched == [lines |-> <<>>, closed |-> FALSE, onDisk |-> FALSE]

Init ==
  /\ pc = "idle"
  /\ file_paths = <<>>
  /\ status_callback = FALSE
  /\ progress_callback = FALSE
  /\ events = <<>>
  /\ idx = 1
  /\ manifestExists = FALSE
  /\ manifestOpen = FALSE
  /\ manifestLines = <<>>
  /\ toolStarted = FALSE
  /\ toolResult = "none"
  /\ toolSaw = NotLaunched
  /\ stderr = <<>>
  /\ outputCreated = FALSE
  /\ pending = NoPending
  /\ cbRaised = FALSE
  /\ outcome = NoOutcome
  /\ reported = [c \in Causes |-> Unseen]
  /\ metadata = [f \in FieldSet |-> Empty]
  /\ tagDisk = NoTag
  /\ tagLoaded = NoTag
  /\ tagMem = NoTag
  /\ openFailed = FALSE
  /\ saveAttempted = FALSE
  /\ saveFailed = FALSE
  /\ rejected = {}
  /\ printed = FALSE

\* ------------------------------------------------------ merge_audio_files

\* the caller invokes merge_audio_files(file_paths, output_path, ...)
MergeCall ==
  /\ pc = "idle"
  /\ \E fp \in FileLists, sc \in BOOLEAN, pcb \in BOOLEAN :
       /\ file_paths' = fp
       /\ status_callback' = sc
       /\ progress_callback' = pcb
  /\ pc' = "L20"
  /\ UNCHANGED <<events, idx, manifestExists, manifestOpen, manifestLines,
                 toolStarted, toolResult, toolSaw, stderr, outputCreated,
                 pending, cbRaised, outcome, reported, tagVars>>

\* lines 20-21
CheckFiles ==
  /\ pc = "L20"
  /\ IF NoFiles(file_paths)
       THEN /\ outcome' = [kind |-> "raise", exc |-> NoFilesExc, msg |-> MsgNoFiles]
            /\ pc' = "done"
       ELSE /\ pc' = "L23"
            /\ UNCHANGED outcome
  /\ UNCHANGED <<mergeVars, tagVars, reported>>

\* A callback site outside the try statement: `if cb: cb(val)`.  A raising
\* callback ends the call with the callback's exception.
NotifyOutside(given, type, val, here, next) ==
  /\ pc = here
  /\ IF given
       THEN /\ events' = Append(events, [type |-> type, val |-> val])
            /\ \/ /\ pc' = next
                  /\ UNCHANGED <<cbRaised, outcome>>
               \/ \E x \in CallbackExc :
                    /\ cbRaised' = TRUE
                    /\ outcome' = [kind |-> "raise", exc |-> x, msg |-> <<>>]
                    /\ pc' = "done"
       ELSE /\ pc' = next
            /\ UNCHANGED <<events, cbRaised, outcome>>
  /\ UNCHANGED <<file_paths, status_callback, progress_callback, idx,
                 manifestExists, manifestOpen, manifestLines, toolStarted,
                 toolResult, toolSaw, stderr, outputCreated, pending,
                 reported, tagVars>>

\* A callback site inside the try body: a raised exception is matched
\* against the except clauses before it reaches the finally block.
NotifyInTry(given, type, val, here, next) ==
  /\ pc = here
  /\ IF given
       THEN /\ events' = Append(events, [type |-> type, val |-> val])
            /\ \/ /\ pc' = next
                  /\ UNCHANGED <<cbRaised, stderr, pending>>
               \/ /\ cbRaised' = TRUE
                  /\ stderr' = NoneVal
                  /\ pc' = "L70"
                  /\ UNCHANGED pending
               \/ /\ cbRaised' = TRUE
                  /\ pc' = "L76"
                  /\ UNCHANGED <<stderr, pending>>
               \/ /\ cbRaised' = TRUE
                  /\ pending' = [exc |-> "OtherError", msg |-> <<>>]
                  /\ pc' = "L82"
                  /\ UNCHANGED stderr
       ELSE /\ pc' = next
            /\ UNCHANGED <<events, cbRaised, stderr, pending>>
  /\ UNCHANGED <<file_paths, status_callback, progress_callback, idx,
                 manifestExists, manifestOpen, manifestLines, toolStarted,
                 toolResult, toolSaw, outputCreated, outcome, reported,
                 tagVars>>

\* lines 23-24
StatusStart == NotifyOutside(status_callback, "status", MsgStart, "L23", "L25")

\* lines 25-26
ProgressStartStep == NotifyOutside(progress_callback, "progress", ProgressStart, "L25", "L29")

\* line 29: NamedTemporaryFile(mode='w', delete=False) creates the file
CreateManifest ==
  /\ pc = "L29"
  /\ manifestExists' = TRUE
  /\ manifestOpen' = TRUE
  /\ manifestLines' = <<>>
  /\ idx' = 1
  /\ pc' = "L30"
  /\ UNCHANGED <<file_paths, status_callback, progress_callback, events,
                 toolStarted, toolResult, toolSaw, stderr, outputCreated,
                 pending, cbRaised, outcome, reported, tagVars>>

\* the write loop dropping a path equal to the one before it
WriteLineMut ==
  /\ pc = "L30"
  /\ idx <= Len(file_paths)
  /\ manifestLines' = IF idx > 1 /\ file_paths[idx] = file_paths[idx - 1]
                        THEN manifestLines
                        ELSE Append(manifestLines, ManifestLine(file_paths[idx]))
  /\ idx' = idx + 1
  /\ UNCHANGED <<pc, file_paths, status_callback, progress_callback, events,
                 manifestExists, manifestOpen, toolStarted, toolResult,
                 toolSaw, stderr, outputCreated, pending, cbRaised, outcome,
                 reported, tagVars>>

\* lines 30-32: one iteration of the write loop
WriteLine ==
  /\ pc = "L30"
  /\ idx <= Len(file_paths)
  /\ manifestLines' = Append(manifestLines, ManifestLine(file_paths[idx]))
  /\ idx' = idx + 1
  /\ UNCHANGED <<pc, file_paths, status_callback, progress_callback, events,
                 manifestExists, manifestOpen, toolStarted, toolResult,
                 toolSaw, stderr, outputCreated, pending, cbRaised, outcome,
                 reported, tagVars>>

\* lines 33-34: the loop is over, the with block closes the file
CloseManifest ==
  /\ pc = "L30"
  /\ idx > Len(file_paths)
  /\ manifestOpen' = FALSE
  /\ pc' = "L35"
  /\ UNCHANGED <<file_paths, status_callback, progress_callback, events, idx,
                 manifestExists, manifestLines, toolStarted, toolResult,
                 toolSaw, stderr, outputCreated, pending, cbRaised, outcome,
                 reported, tagVars>>

\* lines 35-36
StatusListed == NotifyOutside(status_callback, "status", MsgListed, "L35", "L37")

\* lines 37-38
ProgressListedStep == NotifyOutside(progress_callback, "progress", ProgressListed, "L37", "L57")

\* lines 57-58
StatusRunning == NotifyInTry(status_callback, "status", MsgRunning, "L57", "L61")

\* subprocess.run without check=True: a non-zero exit is not raised
ToolNextPcMut(r) == IF r = "missing" THEN "L76" ELSE "L63"

\* how subprocess.run(..., check=True) ends for an exit status
ToolNextPc(r) == IF r = "ok" THEN "L63" ELSE IF r = "nonzero" THEN "L70" ELSE "L76"

\* line 61: subprocess.run(command, capture_output=True, text=True, check=True)
RunTool ==
  /\ pc = "L61"
  /\ \E r \in {"ok", "nonzero", "missing"} :
       /\ toolResult' = r
       /\ toolStarted' = (r # "missing")
       /\ toolSaw' = IF r = "missing" THEN toolSaw
                     ELSE [lines |-> manifestLines, closed |-> ~manifestOpen,
                           onDisk |-> manifestExists]
       /\ IF r = "nonzero"
            THEN \E s \in StderrTexts, o \in BOOLEAN :
                   stderr' = s /\ outputCreated' = o
            ELSE /\ stderr' = stderr
                 /\ outputCreated' = (r = "ok")
       /\ pc' = ToolNextPc(r)
  /\ UNCHANGED <<file_paths, status_callback, progress_callback, events, idx,
                 manifestExists, manifestOpen, manifestLines, pending,
                 cbRaised, outcome, reported, tagVars>>

\* lines 63-64
StatusToolDone == NotifyInTry(status_callback, "status", MsgToolDone, "L63", "L65")

\* lines 65-66; leaving the try body normally enters the finally block
ProgressToolDoneStep == NotifyInTry(progress_callback, "progress", ProgressToolDone, "L65", "L82")

\* An except clause: build the message, report it, raise.  An exception
\* raised by the callback replaces the one the clause was about to raise.
Handler(here, message, exc) ==
  /\ pc = here
  /\ IF status_callback
       THEN /\ events' = Append(events, [type |-> "status", val |-> message])
            /\ \/ /\ pending' = [exc |-> exc, msg |-> message]
                  /\ UNCHANGED cbRaised
               \/ \E x \in CallbackExc :
                    /\ cbRaised' = TRUE
                    /\ pending' = [exc |-> x, msg |-> <<>>]
       ELSE /\ pending' = [exc |-> exc, msg |-> message]
            /\ UNCHANGED <<events, cbRaised>>
  /\ pc' = "L82"
  /\ UNCHANGED <<file_paths, status_callback, progress_callback, idx,
                 manifestExists, manifestOpen, manifestLines, toolStarted,
                 toolResult, toolSaw, stderr, outputCreated, outcome,
                 reported, tagVars>>

\* lines 68-73
HandleToolFailed == Handler("L70", FfmpegErrorMessage(stderr), ToolFailedExc)

\* lines 74-79
HandleToolMissing == Handler("L76", MsgNotFound, ToolMissingExc)

\* lines 80-83, then the pending exception leaves the function
Finally ==
  /\ pc = "L82"
  /\ manifestExists' = FALSE
  /\ IF pending = NoPending
       THEN /\ pc' = "L85"
            /\ UNCHANGED outcome
       ELSE /\ outcome' = [kind |-> "raise", exc |-> pending.exc, msg |-> pending.msg]
            /\ pc' = "done"
  /\ UNCHANGED <<file_paths, status_callback, progress_callback, events, idx,
                 manifestOpen, manifestLines, toolStarted, toolResult,
                 toolSaw, stderr, outputCreated, pending, cbRaised, reported,
                 tagVars>>

\* lines 85-86
StatusExport == NotifyOutside(status_callback, "status", MsgExport, "L85", "L87")

\* lines 87-88
ProgressDoneStep == NotifyOutside(progress_callback, "progress", ProgressDone, "L87", "L90")

\* line 90
ReturnOutput ==
  /\ pc = "L90"
  /\ outcome' = [kind |-> "return", exc |-> "", msg |-> <<>>]
  /\ pc' = "done"
  /\ UNCHANGED <<mergeVars, tagVars, reported>>

\* -------------------------------------------------- add_metadata_to_audio

\* the caller invokes add_metadata_to_audio(audio_path, metadata) on a file
\* that carries no tag, an empty tag or a tag written earlier
TagCall ==
  /\ pc = "idle"
  /\ \E md \in MetadataRecords, prior \in PriorTags :
       /\ metadata' = md
       /\ tagDisk' = prior
  /\ pc' = "T105"
  /\ UNCHANGED <<mergeVars, tagLoaded, tagMem, openFailed, saveAttempted,
                 saveFailed, rejected, printed, outcome, reported>>

\* line 105: eyed3.load raises, or returns None so that line 108 raises
Load ==
  /\ pc = "T105"
  /\ \/ /\ tagMem' = tagDisk
        /\ tagLoaded' = tagDisk
        /\ pc' = "T108"
        /\ UNCHANGED openFailed
     \/ /\ openFailed' = TRUE
        /\ pc' = "T141"
        /\ UNCHANGED <<tagMem, tagLoaded>>
  /\ UNCHANGED <<mergeVars, metadata, tagDisk, saveAttempted, saveFailed,
                 rejected, printed, outcome, reported>>

\* lines 108-109
EnsureTag ==
  /\ pc = "T108"
  /\ tagMem' = IF tagMem.exists THEN tagMem ELSE EmptyTag
  /\ pc' = "T112"
  /\ UNCHANGED <<mergeVars, metadata, tagDisk, tagLoaded, openFailed, saveAttempted,
                 saveFailed, rejected, printed, outcome, reported>>

\* `if metadata.get(f): audiofile.tag.<slot> = metadata[f]`, with the
\* position control reaches when the assignment raises
SetField(f, here, next, onReject) ==
  /\ pc = here
  /\ IF ~Populated(metadata, f)
       THEN /\ pc' = next
            /\ UNCHANGED <<tagMem, rejected>>
       ELSE IF Rejects(f, metadata[f])
         THEN /\ rejected' = rejected \cup {f}
              /\ pc' = onReject
              /\ UNCHANGED tagMem
         ELSE /\ tagMem' = [tagMem EXCEPT !.slots[f] = metadata[f]]
              /\ pc' = next
              /\ UNCHANGED rejected
  /\ UNCHANGED <<mergeVars, metadata, tagDisk, tagLoaded, openFailed, saveAttempted,
                 saveFailed, printed, outcome, reported>>

\* lines 112-113
SetTitle == SetField("title", "T112", "T116", "T141")

\* lines 116-117
SetArtist == SetField("artist", "T116", "T120", "T141")

\* lines 120-121
SetAlbum == SetField("album", "T120", "T124", "T141")

\* the year assignment without its own try/except
SetYearMut == SetField("year", "T124", "T132", "T141")

\* lines 124-129: the inner try/except passes over a rejected year
SetYear == SetField("year", "T124", "T132", "T132")

\* lines 132-135
SetCover == SetField("cover_image", "T132", "T138", "T141")

\* line 138
Save ==
  /\ pc = "T138"
  /\ saveAttempted' = TRUE
  /\ \/ /\ tagDisk' = tagMem
        /\ pc' = "T143"
        /\ UNCHANGED saveFailed
     \/ /\ saveFailed' = TRUE
        /\ pc' = "T141"
        /\ UNCHANGED tagDisk
  /\ UNCHANGED <<mergeVars, metadata, tagLoaded, tagMem, openFailed, rejected, printed,
                 outcome, reported>>

\* lines 140-141: `except Exception as e: print(...)`
PrintError ==
  /\ pc = "T141"
  /\ printed' = TRUE
  /\ pc' = "T143"
  /\ UNCHANGED <<mergeVars, metadata, tagDisk, tagLoaded, tagMem, openFailed,
                 saveAttempted, saveFailed, rejected, outcome, reported>>

\* line 143
ReturnPath ==
  /\ pc = "T143"
  /\ outcome' = [kind |-> "return", exc |-> "", msg |-> <<>>]
  /\ pc' = "tdone"
  /\ UNCHANGED <<mergeVars, tagVars, reported>>

\* ------------------------------------------------------------- the caller

\* what the caller can tell from the way the call ended
SeenKind == IF outcome.kind = "raise" THEN outcome.exc ELSE NoError

\* the failure the finished call ran into, "" when there was none (an
\* exception thrown by a callback is the callback's own, not the pipeline's)
CauseOfCall ==
  IF pc = "done"
    THEN IF NoFiles(file_paths) THEN "empty"
         ELSE IF cbRaised THEN ""
         ELSE IF toolResult = "missing" THEN "tool_missing"
         ELSE IF toolResult = "nonzero" THEN "tool_failed"
         ELSE ""
    ELSE IF openFailed THEN "open_failure"
         ELSE IF saveFailed THEN "save_failure"
         ELSE ""

\* the caller takes the result (app.py lines 130-149 and 183-185) and is
\* ready for the next request
Finish ==
  /\ pc \in {"done", "tdone"}
  /\ reported' = IF CauseOfCall = "" THEN reported
                 ELSE [reported EXCEPT ![CauseOfCall] = SeenKind]
  /\ pc' = "idle"
  /\ file_paths' = <<>>
  /\ status_callback' = FALSE
  /\ progress_callback' = FALSE
  /\ events' = <<>>
  /\ idx' = 1
  /\ manifestExists' = FALSE
  /\ manifestOpen' = FALSE
  /\ manifestLines' = <<>>
  /\ toolStarted' = FALSE
  /\ toolResult' = "none"
  /\ toolSaw' = NotLaunched
  /\ stderr' = <<>>
  /\ outputCreated' = FALSE
  /\ pending' = NoPending
  /\ cbRaised' = FALSE
  /\ outcome' = NoOutcome
  /\ metadata' = [f \in FieldSet |-> Empty]
  /\ tagDisk' = NoTag
  /\ tagLoaded' = NoTag
  /\ tagMem' = NoTag
  /\ openFailed' = FALSE
  /\ saveAttempted' = FALSE
  /\ saveFailed' = FALSE
  /\ rejected' = {}
  /\ printed' = FALSE

Next ==
  \/ MergeCall
  \/ CheckFiles
  \/ StatusStart
  \/ ProgressStartStep
  \/ CreateManifest
  \/ WriteLine
  \/ CloseManifest
  \/ StatusListed
  \/ ProgressListedStep
  \/ StatusRunning
  \/ RunTool
  \/ StatusToolDone
  \/ ProgressToolDoneStep
  \/ HandleToolFailed
  \/ HandleToolMissing
  \/ Finally
  \/ StatusExport
  \/ ProgressDoneStep
  \/ ReturnOutput
  \/ TagCall
  \/ Load
  \/ EnsureTag
  \/ SetTitle
  \/ SetArtist
  \/ SetAlbum
  \/ SetYear
  \/ SetCover
  \/ Save
  \/ PrintError
  \/ ReturnPath
  \/ Finish

Spec == Init /\ [][Next]_vars

TypeOK ==
  /\ file_paths \in FileLists
  /\ toolResult \in {"none", "ok", "nonzero", "missing"}
  /\ outcome.kind \in {"none", "return", "raise"}
  /\ \A c \in Causes : reported[c] \in {Unseen, NoError, "ValueError", "RuntimeError"}

\* ------------------------------------------------------------ properties

Contains(hay, needle) ==
  \E k \in 0..(Len(hay) - Len(needle)) :
    SubSeq(hay, k + 1, k + Len(needle)) = needle

IsProgress(e) == e.type = "progress"
IsStatus(e) == e.type = "status"
ProgressEvents == SelectSeq(events, IsProgress)
StatusEvents == SelectSeq(events, IsStatus)
ProgressIdx == {k \in 1..Len(events) : IsProgress(events[k])}
StatusIdx == {k \in 1..Len(events) : IsStatus(events[k])}
Reported100 == \E k \in ProgressIdx : events[k].val = 100
NonDecreasing ==
  \A j, k \in 1..Len(ProgressEvents) :
    j <= k => ProgressEvents[j].val <= ProgressEvents[k].val

MergeBody == {"L23", "L25", "L29", "L30", "L35", "L37", "L57", "L61", "L63",
              "L65", "L70", "L76", "L82", "L85", "L87", "L90"}
MergeEnded == pc = "done"
TagEnded == pc = "tdone"
Succeeded == MergeEnded /\ outcome.kind = "return"

\* C1: a call with an empty file_paths list ends in the ValueError of line
\* 21 and nothing else has happened by then: no callback was invoked, no
\* manifest was created, ffmpeg was not launched, no output was written;
\* the call never gets past the guard.
C1_EmptyListFailsBeforeIO ==
  file_paths = <<>> =>
    /\ pc \notin MergeBody
    /\ MergeEnded =>
         /\ outcome = [kind |-> "raise", exc |-> "ValueError",
                       msg |-> <<"No files provided for merging">>]
         /\ events = <<>>
         /\ ~manifestExists
         /\ manifestLines = <<>>
         /\ ~toolStarted
         /\ toolResult = "none"
         /\ ~outputCreated

C1_Witness ==
  /\ MergeEnded
  /\ file_paths = <<>>
  /\ outcome.kind = "raise"

\* C2 as claimed: in a successful merge the progress values do not
\* decrease, the first is 0.0 and the last is 1.0, and the last status
\* message comes only after progress 1.0 was reported.
C2_Original ==
  (Succeeded /\ status_callback /\ progress_callback) =>
    /\ NonDecreasing
    /\ ProgressEvents[1].val = 0
    /\ ProgressEvents[Len(ProgressEvents)].val = 100
    /\ \A s \in StatusIdx : (\A t \in StatusIdx : t <= s) =>
         \E k \in ProgressIdx : events[k].val = 100 /\ k < s

\* C2 amended: in a successful merge the progress values do not decrease,
\* the first is 0.1 and the last is 1.0, and the last status message is
\* passed after progress 0.9 and before progress 1.0, which is the final
\* callback invocation.
C2_ProgressOrder ==
  Succeeded =>
    /\ progress_callback =>
         /\ NonDecreasing
         /\ Len(ProgressEvents) >= 1
         /\ ProgressEvents[1].val = 10
         /\ ProgressEvents[Len(ProgressEvents)].val = 100
         /\ IsProgress(events[Len(events)])
    /\ (progress_callback /\ status_callback) =>
         \A s \in StatusIdx : (\A t \in StatusIdx : t <= s) =>
           /\ \E k \in ProgressIdx : events[k].val = 90 /\ k < s
           /\ \A k \in ProgressIdx : events[k].val = 100 => s < k

C2_Witness ==
  /\ Succeeded
  /\ status_callback
  /\ progress_callback
  /\ Len(file_paths) >= 2

\* C3: when ffmpeg cannot be found the call fails with RuntimeError, when
\* ffmpeg runs and exits non-zero it fails with ValueError, so the two
\* kinds differ whenever a caller has seen both, and the ValueError's
\* message contains the captured stderr text verbatim.  (The error meant is
\* the one merge_audio_files raises: a status callback that itself raises
\* while being told the message ends the call with its own exception.)
C3_ToolErrorsDistinct ==
  /\ (MergeEnded /\ toolResult = "missing" /\ ~cbRaised) =>
       /\ outcome.kind = "raise"
       /\ outcome.exc = "RuntimeError"
  /\ (MergeEnded /\ toolResult = "nonzero" /\ ~cbRaised) =>
       /\ outcome.kind = "raise"
       /\ outcome.exc = "ValueError"
       /\ Contains(outcome.msg, stderr)
       /\ Len(outcome.msg) = 1 + Len(stderr)
  /\ (reported["tool_missing"] # Unseen /\ reported["tool_failed"] # Unseen) =>
       reported["tool_missing"] # reported["tool_failed"]

C3_Witness ==
  /\ MergeEnded
  /\ toolResult = "nonzero"
  /\ ~cbRaised
  /\ Len(stderr) >= 2
  /\ reported["tool_missing"] # Unseen

\* C4: no two distinct failure causes (empty input list, tool missing,
\* tool failed, container open failure, persistence failure) reach the
\* caller as the same kind of outcome.
C4_KindsDistinct ==
  \A c, d \in Causes :
    (c # d /\ reported[c] # Unseen /\ reported[d] # Unseen) =>
      reported[c] # reported[d]

\* C5: add_metadata_to_audio ends in an error, and does not return the
\* path, whenever opening the container or the final save failed.
C5_HardFailureReported ==
  (TagEnded /\ (openFailed \/ saveFailed)) => outcome.kind = "raise"

\* what the call yields for a tool result when its callbacks do nothing
QuietOutcome ==
  IF toolResult = "ok" THEN [kind |-> "return", exc |-> "", msg |-> <<>>]
  ELSE IF toolResult = "nonzero"
    THEN [kind |-> "raise", exc |-> "ValueError",
          msg |-> <<"ffmpeg error: ">> \o stderr]
    ELSE [kind |-> "raise", exc |-> "RuntimeError", msg |-> MsgNotFound]

\* C6: a callback that raises does not abort the merge: ffmpeg is still
\* run, the call ends as it would with callbacks that do nothing, and no
\* manifest file is left behind.
C6_CallbackFailureHarmless ==
  (MergeEnded /\ cbRaised) =>
    /\ toolResult # "none"
    /\ outcome = QuietOutcome
    /\ ~manifestExists

OtherFields == FieldSet \ {"year"}
BeforeYear == {"title", "artist", "album"}

\* C7: when the year value is rejected the tagging goes on: title, artist
\* and album stay as set, control moves on to the cover image and not to
\* the error exit, and where the cover image is accepted too the save is
\* executed with every other populated field set; the year slot alone is
\* not written (it stays as loaded: absent on a file that carried no year).
C7_YearRejectionSkipsOnlyYear ==
  "year" \in rejected =>
    /\ pc \in {"T132", "T138", "T141", "T143", "tdone"}
    /\ \A f \in BeforeYear : Populated(metadata, f) => tagMem.slots[f] = metadata[f]
    /\ tagMem.slots["year"] = tagLoaded.slots["year"]
    /\ ~tagLoaded.exists => tagMem.slots["year"] = Absent
    /\ (TagEnded /\ "cover_image" \notin rejected) =>
         /\ saveAttempted
         /\ \A f \in OtherFields : Populated(metadata, f) => tagMem.slots[f] = metadata[f]
         /\ ~saveFailed =>
              /\ ~printed
              /\ tagDisk = tagMem

C7_Witness ==
  /\ TagEnded
  /\ rejected = {"year"}
  /\ \A f \in OtherFields : metadata[f] = Good
  /\ ~tagLoaded.exists
  /\ saveAttempted
  /\ ~saveFailed
  /\ tagDisk.slots["title"] = Good
  /\ tagDisk.slots["year"] = Absent

\* C8: a failure while setting any one optional field does not abort the
\* tagging: the save is still executed and every populated field that was
\* not refused is set.
C8_FieldFailureTolerated ==
  (TagEnded /\ rejected # {}) =>
    /\ saveAttempted
    /\ \A f \in FieldSet \ rejected :
         Populated(metadata, f) => tagMem.slots[f] = metadata[f]

\* C9: the manifest ffmpeg is launched with has one `file '<path>'` line
\* per source, in input order, duplicates kept, and it was completely
\* written and closed (and still on disk) when ffmpeg started.
C9_ManifestMatchesInput ==
  toolStarted =>
    /\ Len(file_paths) >= 1
    /\ toolSaw.onDisk
    /\ toolSaw.closed
    /\ Len(toolSaw.lines) = Len(file_paths)
    /\ \A k \in 1..Len(file_paths) :
         toolSaw.lines[k] = <<"file '", file_paths[k], "'\n">>

C9_Witness ==
  /\ toolStarted
  /\ Len(file_paths) >= 2
  /\ file_paths[1] = file_paths[2]
  /\ toolSaw.lines[2] = <<"file '", file_paths[2], "'\n">>

ToolErrorMessage ==
  IF toolResult = "nonzero" THEN <<"ffmpeg error: ">> \o stderr ELSE MsgNotFound

\* C10: progress 1.0 is reported only after ffmpeg exited with code 0 and
\* wrote the output; a call in which ffmpeg was missing or exited non-zero
\* never reports 1.0, returns no output path, and the last message passed
\* to the status callback is the error message.
C10_FullProgressOnlyAfterSuccess ==
  /\ Reported100 => (toolResult = "ok" /\ outputCreated)
  /\ (MergeEnded /\ toolResult \in {"missing", "nonzero"}) =>
       /\ ~Reported100
       /\ outcome.kind = "raise"
       /\ status_callback =>
            /\ Len(StatusEvents) >= 1
            /\ StatusEvents[Len(StatusEvents)].val = ToolErrorMessage

C10_Witness ==
  /\ MergeEnded
  /\ toolResult = "nonzero"
  /\ status_callback
  /\ progress_callback
  /\ Len(stderr) >= 1
  /\ Len(ProgressEvents) = 2

====
